---- MODULE Spec2Model ----
(***************************************************************************)
(* temconv: unit conversion over decimal values.                           *)
(*                                                                         *)
(* Two variants of the program are modelled side by side:                  *)
(*   "affine"     src/temconv.py             (one Calc class, rounding     *)
(*                                            only when a value is shown)  *)
(*   "nonaffine"  src/temconv_non-affine.py  (one class per formula,       *)
(*                                            rounding inside convert)     *)
(*                                                                         *)
(* Both compute with decimal.Decimal under getcontext().prec = 23 and the  *)
(* default context rounding ROUND_HALF_EVEN.  A finite Decimal is the      *)
(* record [sign, int, exp] of the decimal module: value                    *)
(* (-1)^sign * int * 10^exp, int being the coefficient's digits, most      *)
(* significant first, with no leading zero ("0" is <<0>>).  Coefficients   *)
(* exceed machine integers (23 digits and more), so the arithmetic works   *)
(* on the digit sequences.  Exponents of the inputs are far from           *)
(* Emin/Emax, so Overflow/Underflow/Clamped are out of reach.              *)
(***************************************************************************)
EXTENDS Integers, Sequences, FiniteSets, TLC

(***************************************************************************)
(* Coefficient arithmetic on digit sequences.                              *)
(***************************************************************************)
Max(a, b) == IF a >= b THEN a ELSE b

Min(a, b) == IF a <= b THEN a ELSE b

\* the function f over 1..n as a sequence
Tuple(f, n) == SubSeq(f, 1, n)

Zeros(n) == Tuple([i \in 1..n |-> 0], n)

\* The digits are all zero from position i (1-based) on.
ZerosFrom(s, i) == \A j \in i..Len(s) : s[j] = 0

\* Python's int(): drop leading zeros, keep one digit.
StripZeros(s) ==
  LET nz == {i \in 1..Len(s) : s[i] # 0}
  IN IF nz = {} THEN <<0>>
     ELSE SubSeq(s, CHOOSE i \in nz : \A j \in nz : i <= j, Len(s))

PadLeft(s, n) == Zeros(n - Len(s)) \o s

\* -1, 0, 1 as the number a is below, equal to, above the number b.
CmpCoef(a, b) ==
  LET n == Max(Len(a), Len(b))
      A == PadLeft(a, n)
      B == PadLeft(b, n)
      diff == {i \in 1..n : A[i] # B[i]}
  IN IF diff = {} THEN 0
     ELSE LET i == CHOOSE x \in diff : \A y \in diff : x <= y
          IN IF A[i] < B[i] THEN -1 ELSE 1

\* Carry propagation over column sums s[i] in 0..18 (carry lookahead: a
\* column receives a carry iff some column to its right overflows and all
\* columns between are 9).
Ripple(s) ==
  LET n == Len(s)
      carry(i) == \E j \in (i + 1)..n :
                     s[j] >= 10 /\ \A k \in (i + 1)..(j - 1) : s[k] = 9
      digits == Tuple([i \in 1..n |->
                         (s[i] + (IF carry(i) THEN 1 ELSE 0)) % 10], n)
  IN StripZeros((IF carry(0) THEN <<1>> ELSE <<>>) \o digits)

AddCoef(a, b) ==
  LET n == Max(Len(a), Len(b))
      A == PadLeft(a, n)
      B == PadLeft(b, n)
  IN Ripple(Tuple([i \in 1..n |-> A[i] + B[i]], n))

\* a - b for a >= b (borrow lookahead).
SubCoef(a, b) ==
  LET n == Max(Len(a), Len(b))
      A == PadLeft(a, n)
      B == PadLeft(b, n)
      borrow(i) == \E j \in (i + 1)..n :
                      A[j] < B[j] /\ \A k \in (i + 1)..(j - 1) : A[k] = B[k]
  IN StripZeros(Tuple([i \in 1..n |->
                   (A[i] - B[i] - (IF borrow(i) THEN 1 ELSE 0) + 10) % 10], n))

\* sum of a[i] * b[k - i] for i in lo..hi
RECURSIVE SumProd(_, _, _, _, _)
SumProd(a, b, k, lo, hi) ==
  IF lo > hi THEN 0
  ELSE IF lo = hi THEN a[lo] * b[k - lo]
  ELSE LET mid == (lo + hi) \div 2
       IN SumProd(a, b, k, lo, mid) + SumProd(a, b, k, mid + 1, hi)

\* move every column's tens to the column on its left until the columns
\* are at most 18
RECURSIVE Reduce(_)
Reduce(c) ==
  IF \A k \in 1..Len(c) : c[k] <= 18 THEN c
  ELSE Reduce(Tuple([k \in 1..Len(c) |->
                 (c[k] % 10) + (IF k < Len(c) THEN c[k + 1] \div 10 ELSE 0)],
                     Len(c)))

\* schoolbook product: column sums, then carries
MulCoef(a, b) ==
  IF a = <<0>> \/ b = <<0>> THEN <<0>>
  ELSE LET n == Len(a) + Len(b)
           c == Tuple([k \in 1..n |->
                   SumProd(a, b, k, Max(1, k - Len(b)), Min(Len(a), k - 1))], n)
       IN Ripple(Reduce(c))

\* a small coefficient as a machine integer (the divisors 5 and 9)
RECURSIVE CoefToNat(_)
CoefToNat(s) ==
  IF Len(s) = 0 THEN 0
  ELSE 10 * CoefToNat(SubSeq(s, 1, Len(s) - 1)) + s[Len(s)]

RECURSIVE NatToCoef(_)
NatToCoef(n) ==
  IF n < 10 THEN <<n>> ELSE Append(NatToCoef(n \div 10), n % 10)

\* 10^m mod d
RECURSIVE Pow10Mod(_, _)
Pow10Mod(m, d) ==
  IF m = 0 THEN 1 % d
  ELSE LET h == Pow10Mod(m \div 2, d)
       IN IF m % 2 = 1 THEN (h * h * 10) % d ELSE (h * h) % d

\* the number a[lo..hi] mod d
RECURSIVE ModCoef(_, _, _, _)
ModCoef(a, lo, hi, d) ==
  IF lo > hi THEN 0
  ELSE IF lo = hi THEN a[lo] % d
  ELSE LET mid == (lo + hi) \div 2
       IN (ModCoef(a, lo, mid, d) * Pow10Mod(hi - mid, d)
           + ModCoef(a, mid + 1, hi, d)) % d

\* divmod(a, d) by long division, d a machine integer below 1000: the
\* i-th quotient digit divides the running remainder of a[1..i-1],
\* followed by a[i];  [q |-> quotient digits], the remainder being
\* ModCoef(a, 1, Len(a), d)
DivModCoef(a, d) ==
  [q |-> StripZeros(Tuple([i \in 1..Len(a) |->
                             (ModCoef(a, 1, i - 1, d) * 10 + a[i]) \div d],
                          Len(a)))]

\* the number of trailing zeros of coeff that may be dropped: at most limit
TrailingZeros(coeff, limit) ==
  Cardinality({t \in 1..Min(limit, Len(coeff) - 1) :
                 \A j \in (Len(coeff) - t + 1)..Len(coeff) : coeff[j] = 0})

DropDigits(sign, coeff, exp, t) ==
  [sign |-> sign, int |-> SubSeq(coeff, 1, Len(coeff) - t), exp |-> exp + t]

\* the loop "while exp < ideal_exp and coeff % 10 == 0: coeff //= 10;
\* exp += 1" of an exact division, coeff nonzero
DropTrailingZeros(sign, coeff, exp, ideal_exp) ==
  DropDigits(sign, coeff, exp, TrailingZeros(coeff, ideal_exp - exp))

(***************************************************************************)
(* decimal.Decimal under the program's context.                            *)
(***************************************************************************)
\* getcontext().prec = 23: significant digits kept by every operation
Prec == 23

Dec(sign, coeff, exp) == [sign |-> sign, int |-> coeff, exp |-> exp]

\* an exception raised instead of a value
Raise(type, args) == [exc |-> type, args |-> args]

IsExc(x) == "exc" \in DOMAIN x

\* "not self": the value is zero
IsZeroDec(d) == d.int = <<0>>

\* Decimal.adjusted(): the exponent of the most significant digit
adjusted(d) == d.exp + Len(d.int) - 1

\* _all_zeros(val, i): the digits from index i (0-based) on are all zero
all_zeros(val, i) == ZerosFrom(val, i + 1)

\* _exact_half(val, i): the digits from index i on are 5 followed by zeros
exact_half(val, i) == val[i + 1] = 5 /\ ZerosFrom(val, i + 2)

\* _round_half_up(self, prec): 1 round up, 0 exact, -1 round down
round_half_up(d, prec) ==
  IF d.int[prec + 1] \in {5, 6, 7, 8, 9} THEN 1
  ELSE IF all_zeros(d.int, prec) THEN 0
  ELSE -1

\* _round_half_even(self, prec): ties go to the even neighbour
round_half_even(d, prec) ==
  IF exact_half(d.int, prec) /\ (prec = 0 \/ d.int[prec] \in {0, 2, 4, 6, 8})
  THEN -1
  ELSE round_half_up(d, prec)

\* the context's rounding: decimal's default, ROUND_HALF_EVEN (never set
\* by the program)
context_rounding(d, prec) == round_half_even(d, prec)

\* the first `digits` digits of d, rounded by the context's rounding
\* (coeff = self._int[:digits] or '0', plus 1 when the rounding says so)
RoundCoef(d, digits) ==
  IF context_rounding(d, digits) = 1
  THEN AddCoef(IF digits = 0 THEN <<0>> ELSE SubSeq(d.int, 1, digits), <<1>>)
  ELSE IF digits = 0 THEN <<0>> ELSE SubSeq(d.int, 1, digits)

\* the end of _fix: a rounded coefficient that grew to Prec + 1 digits
\* (99..9 -> 100..0) loses its last digit
fix_rounded(sign, coeff, exp_min) ==
  IF Len(coeff) > Prec
  THEN Dec(sign, SubSeq(coeff, 1, Len(coeff) - 1), exp_min + 1)
  ELSE Dec(sign, coeff, exp_min)

\* Decimal._fix(context): round to at most Prec digits.  With
\* exp_min = len(_int) + _exp - prec, the test _exp < exp_min says that
\* there are more than Prec digits, and Prec of them are kept.
fix(d) ==
  IF IsZeroDec(d) \/ Len(d.int) <= Prec THEN d
  ELSE fix_rounded(d.sign, RoundCoef(d, Prec), Len(d.int) + d.exp - Prec)

\* Decimal._rescale(exp, rounding): the value with exponent exp
rescale(d, exp) ==
  IF IsZeroDec(d) THEN Dec(d.sign, <<0>>, exp)
  ELSE IF d.exp >= exp THEN Dec(d.sign, d.int \o Zeros(d.exp - exp), exp)
  ELSE IF Len(d.int) + d.exp - exp < 0
  THEN Dec(d.sign, RoundCoef(Dec(d.sign, <<1>>, exp - 1), 0), exp)
  ELSE Dec(d.sign, RoundCoef(d, Len(d.int) + d.exp - exp), exp)

TooManyDigits ==
  Raise("InvalidOperation",
        <<"quantize result has too many digits for current context">>)

\* the end of quantize: the rescaled value must fit the precision
quantize_rescaled(ans) ==
  IF Len(ans.int) > Prec THEN TooManyDigits ELSE fix(ans)

\* Decimal.quantize(exp): raises InvalidOperation when the result would
\* need more than Prec digits
quantize(d, e) ==
  IF IsZeroDec(d) THEN fix(Dec(d.sign, <<0>>, e.exp))
  ELSE IF adjusted(d) - e.exp + 1 > Prec THEN TooManyDigits
  ELSE quantize_rescaled(rescale(d, e.exp))

\* _normalize(op1, op2, prec), for tmp the operand of the larger exponent
\* and other the one of the smaller: both at one exponent; an operand too
\* small to matter is replaced by a 1 just below the last digit of tmp
\* that can survive rounding
normalize_exp(tmp) == tmp.exp + Min(-1, Len(tmp.int) - Prec - 2)

normalize_other(tmp, other) ==
  IF Len(other.int) + other.exp - 1 < normalize_exp(tmp)
  THEN Dec(other.sign, <<1>>, normalize_exp(tmp))
  ELSE other

normalize_tmp(tmp, other2) ==
  Dec(tmp.sign, tmp.int \o Zeros(tmp.exp - other2.exp), other2.exp)

\* the sum of two nonzero operands at one exponent, before _fix
add_normalized(op1, op2, exp) ==
  IF op1.sign # op2.sign
  THEN IF op1.int = op2.int THEN Dec(0, <<0>>, exp)
       ELSE IF CmpCoef(op1.int, op2.int) < 0
       THEN Dec(op2.sign, SubCoef(op2.int, op1.int), op1.exp)
       ELSE Dec(op1.sign, SubCoef(op1.int, op2.int), op1.exp)
  ELSE Dec(op1.sign, AddCoef(op1.int, op2.int), op1.exp)

add_ordered(tmp, other2, exp) ==
  add_normalized(normalize_tmp(tmp, other2), other2, exp)

\* Decimal.__add__ before its closing _fix
add_unrounded(self, other) ==
  IF IsZeroDec(self) /\ IsZeroDec(other)
  THEN Dec(Min(self.sign, other.sign), <<0>>, Min(self.exp, other.exp))
  ELSE IF IsZeroDec(self)
  THEN rescale(other, Max(Min(self.exp, other.exp), other.exp - Prec - 1))
  ELSE IF IsZeroDec(other)
  THEN rescale(self, Max(Min(self.exp, other.exp), self.exp - Prec - 1))
  ELSE IF self.exp < other.exp
  THEN add_ordered(other, normalize_other(other, self),
                   Min(self.exp, other.exp))
  ELSE add_ordered(self, normalize_other(self, other),
                   Min(self.exp, other.exp))

\* Decimal.__add__
Dec_add(self, other) == fix(add_unrounded(self, other))

\* Decimal.__neg__ as used by subtraction (copy_negate)
copy_negate(d) == Dec(1 - d.sign, d.int, d.exp)

\* Decimal.__sub__: self + (-other)
Dec_sub(self, other) == Dec_add(self, copy_negate(other))

\* Decimal.__mul__
Dec_mul(self, other) ==
  fix(Dec(IF self.sign = other.sign THEN 0 ELSE 1,
          MulCoef(self.int, other.int),
          self.exp + other.exp))

\* the end of __truediv__: an inexact quotient ending in 0 or 5 gets 1
\* added so that _fix rounds it correctly; an exact one sheds trailing
\* zeros up to the ideal exponent
div_result(sign, qr, inexact, exp, ideal_exp) ==
  IF inexact
  THEN Dec(sign,
           IF qr.q[Len(qr.q)] \in {0, 5} THEN AddCoef(qr.q, <<1>>) ELSE qr.q,
           exp)
  ELSE DropTrailingZeros(sign, qr.q, exp, ideal_exp)

\* shift = len(other._int) - len(self._int) + prec + 1: the dividend is
\* padded by shift zeros, or for a negative shift cut by -shift digits
\* (those digits then count as a remainder)
div_shifted(self, other, shift) ==
  div_result(IF self.sign = other.sign THEN 0 ELSE 1,
             DivModCoef(IF shift >= 0 THEN self.int \o Zeros(shift)
                        ELSE SubSeq(self.int, 1, Len(self.int) + shift),
                        CoefToNat(other.int)),
             \/ ModCoef(IF shift >= 0 THEN self.int \o Zeros(shift)
                        ELSE SubSeq(self.int, 1, Len(self.int) + shift),
                        1, Len(self.int) + shift, CoefToNat(other.int)) # 0
             \/ ~ZerosFrom(self.int, Len(self.int) + Min(shift, 0) + 1),
             self.exp - other.exp - shift,
             self.exp - other.exp)

\* Decimal.__truediv__ by a nonzero divisor whose coefficient is a machine
\* integer (the program divides by 5 and by 9 only)
Dec_div(self, other) ==
  IF IsZeroDec(self)
  THEN fix(Dec(IF self.sign = other.sign THEN 0 ELSE 1, <<0>>,
               self.exp - other.exp))
  ELSE fix(div_shifted(self, other,
                       Len(other.int) - Len(self.int) + Prec + 1))

\* Decimal(n) for a machine integer n
num(n) == IF n < 0 THEN Dec(1, NatToCoef(-n), 0) ELSE Dec(0, NatToCoef(n), 0)

RECURSIVE PowCoef(_, _)
PowCoef(b, k) ==
  IF k = 0 THEN <<1>>
  ELSE LET h == PowCoef(b, k \div 2)
           sq == MulCoef(h, h)
       IN IF k % 2 = 1 THEN MulCoef(sq, b) ELSE sq

\* Decimal(f) for a float f = n / 2^k (n odd or k = 0): Decimal.from_float,
\* the float's exact value n * 5^k * 10^-k, not rounded to the context
from_float(n, k) == Dec(0, MulCoef(n, PowCoef(<<5>>, k)), -k)

\* Decimal.__eq__: numeric equality (1.80 == 1.8, 0 == -0)
Dec_eq(a, b) ==
  IF IsZeroDec(a) \/ IsZeroDec(b) THEN IsZeroDec(a) /\ IsZeroDec(b)
  ELSE /\ a.sign = b.sign
       /\ LET e == Min(a.exp, b.exp)
          IN a.int \o Zeros(a.exp - e) = b.int \o Zeros(b.exp - e)

(***************************************************************************)
(* The conversion rules and the registry.                                  *)
(***************************************************************************)
Variants == {"affine", "nonaffine"}

NoneType == [class |-> "NoneType"]

\* num("273.15") and the like: a numeric string keeps its digits
D273_15 == Dec(0, <<2, 7, 3, 1, 5>>, -2)

D1_8 == Dec(0, <<1, 8>>, -1)

D491_67 == Dec(0, <<4, 9, 1, 6, 7>>, -2)

\* The float literals of temconv.py, each the nearest double n / 2^k:
\*   0.179985 = 3242321515729115 / 2^54    0.621371 = 5596812408117665 / 2^53
\*   5.556000 = 6255499882417619 / 2^50    3.452338 = 3886987032589251 / 2^50
\*   1.609344 =  226495032459717 / 2^47    0.289658 = 5218014643459533 / 2^54
F0_179985 == from_float(<<3,2,4,2,3,2,1,5,1,5,7,2,9,1,1,5>>, 54)

F0_621371 == from_float(<<5,5,9,6,8,1,2,4,0,8,1,1,7,6,6,5>>, 53)

F5_556000 == from_float(<<6,2,5,5,4,9,9,8,8,2,4,1,7,6,1,9>>, 50)

F3_452338 == from_float(<<3,8,8,6,9,8,7,0,3,2,5,8,9,2,5,1>>, 50)

F1_609344 == from_float(<<2,2,6,4,9,5,0,3,2,4,5,9,7,1,7>>, 47)

F0_289658 == from_float(<<5,2,1,8,0,1,4,6,4,3,4,5,9,5,3,3>>, 54)

\* temconv.py, class Calc: the affine rule (offset defaults to 0)
Calc(multiplier, offset) ==
  [class |-> "Calc", multiplier |-> multiplier, offset |-> offset]

Calc_convert(self, value) ==
  Dec_add(Dec_mul(value, self.multiplier), self.offset)

\* temconv.py, ConverterFactory.strategy_map
strategy_map_affine ==
  (<<"C", "F">> :> Calc(D1_8, num(32))) @@
  (<<"C", "K">> :> Calc(num(1), D273_15)) @@
  (<<"F", "C">> :> Calc(Dec_div(num(5), num(9)), Dec_div(num(-160), num(9)))) @@
  (<<"F", "K">> :> Calc(Dec_div(num(5), num(9)),
                        Dec_add(Dec_div(num(-160), num(9)), D273_15))) @@
  (<<"K", "C">> :> Calc(num(1), copy_negate(D273_15))) @@
  (<<"K", "F">> :> Calc(D1_8, Dec_sub(num(32), D491_67))) @@
  (<<"KM", "LK">> :> Calc(F0_179985, num(0))) @@
  (<<"KM", "MI">> :> Calc(F0_621371, num(0))) @@
  (<<"LK", "KM">> :> Calc(F5_556000, num(0))) @@
  (<<"LK", "MI">> :> Calc(F3_452338, num(0))) @@
  (<<"MI", "KM">> :> Calc(F1_609344, num(0))) @@
  (<<"MI", "LK">> :> Calc(F0_289658, num(0)))

\* temconv_non-affine.py: one class per formula
CelsiusToFahrenheit_convert(value) ==
  Dec_add(Dec_div(Dec_mul(value, num(9)), num(5)), num(32))

CelsiusToKelvin_convert(value) == Dec_add(value, D273_15)

\* Fahrenheit to Celsius with the offset taken after the scaling,
\* value * 5 / 9 - 32: C7 tells it from the program's
FahrenheitToCelsius_unparenthesized(value) ==
  Dec_sub(Dec_div(Dec_mul(value, num(5)), num(9)), num(32))

FahrenheitToCelsius_convert(value) ==
  Dec_div(Dec_mul(Dec_sub(value, num(32)), num(5)), num(9))

FahrenheitToKelvin_convert(value) ==
  Dec_add(Dec_div(Dec_mul(Dec_sub(value, num(32)), num(5)), num(9)), D273_15)

KelvinToCelsius_convert(value) == Dec_sub(value, D273_15)

KelvinToFahrenheit_convert(value) ==
  Dec_add(Dec_div(Dec_mul(Dec_sub(value, D273_15), num(9)), num(5)), num(32))

KilometerToLeuk_convert(value) ==
  Dec_mul(value, Dec(0, <<1, 7, 9, 9, 8, 5>>, -6))

KilometerToMile_convert(value) ==
  Dec_mul(value, Dec(0, <<6, 2, 1, 3, 7, 1>>, -6))

LeukToKilometer_convert(value) ==
  Dec_mul(value, Dec(0, <<5, 5, 5, 6>>, -3))

LeukToMile_convert(value) ==
  Dec_mul(value, Dec(0, <<3, 4, 5, 2, 3, 3, 8>>, -6))

MileToKilometer_convert(value) ==
  Dec_mul(value, Dec(0, <<1, 6, 0, 9, 3, 4, 4>>, -6))

MileToLeuk_convert(value) ==
  Dec_mul(value, Dec(0, <<2, 8, 9, 6, 5, 8>>, -6))

\* temconv_non-affine.py, ConverterFactory.strategy_map
strategy_map_nonaffine ==
  (<<"C", "F">> :> [class |-> "CelsiusToFahrenheit"]) @@
  (<<"C", "K">> :> [class |-> "CelsiusToKelvin"]) @@
  (<<"F", "C">> :> [class |-> "FahrenheitToCelsius"]) @@
  (<<"F", "K">> :> [class |-> "FahrenheitToKelvin"]) @@
  (<<"K", "C">> :> [class |-> "KelvinToCelsius"]) @@
  (<<"K", "F">> :> [class |-> "KelvinToFahrenheit"]) @@
  (<<"KM", "L">> :> [class |-> "KilometerToLeuk"]) @@
  (<<"KM", "MI">> :> [class |-> "KilometerToMile"]) @@
  (<<"L", "KM">> :> [class |-> "LeukToKilometer"]) @@
  (<<"L", "MI">> :> [class |-> "LeukToMile"]) @@
  (<<"MI", "KM">> :> [class |-> "MileToKilometer"]) @@
  (<<"MI", "L">> :> [class |-> "MileToLeuk"])

strategy_map(variant) ==
  IF variant = "affine" THEN strategy_map_affine ELSE strategy_map_nonaffine

\* a lookup that falls back to the identity rule for a same-unit pair: C4
\* tells it from the program's
dict_get_identity(d, key) ==
  IF key \in DOMAIN d THEN d[key]
  ELSE IF key[1] = key[2] THEN Calc(num(1), num(0))
  ELSE NoneType

\* dict.get(key): None for a missing key
dict_get(d, key) == IF key \in DOMAIN d THEN d[key] ELSE NoneType

\* ConverterFactory.get_strategy
get_strategy(variant, from_unit, to_unit) ==
  dict_get(strategy_map(variant), <<from_unit, to_unit>>)

\* strategy.convert(value): dispatch on the strategy's class
strategy_convert(strategy, value) ==
  CASE strategy.class = "Calc" -> Calc_convert(strategy, value)
    [] strategy.class = "CelsiusToFahrenheit" -> CelsiusToFahrenheit_convert(value)
    [] strategy.class = "CelsiusToKelvin" -> CelsiusToKelvin_convert(value)
    [] strategy.class = "FahrenheitToCelsius" -> FahrenheitToCelsius_convert(value)
    [] strategy.class = "FahrenheitToKelvin" -> FahrenheitToKelvin_convert(value)
    [] strategy.class = "KelvinToCelsius" -> KelvinToCelsius_convert(value)
    [] strategy.class = "KelvinToFahrenheit" -> KelvinToFahrenheit_convert(value)
    [] strategy.class = "KilometerToLeuk" -> KilometerToLeuk_convert(value)
    [] strategy.class = "KilometerToMile" -> KilometerToMile_convert(value)
    [] strategy.class = "LeukToKilometer" -> LeukToKilometer_convert(value)
    [] strategy.class = "LeukToMile" -> LeukToMile_convert(value)
    [] strategy.class = "MileToKilometer" -> MileToKilometer_convert(value)
    [] strategy.class = "MileToLeuk" -> MileToLeuk_convert(value)

(***************************************************************************)
(* UnitConverter.convert.  The result is [history, ret]: the history after *)
(* the call and what the call gave its caller, a Decimal or an exception.  *)
(***************************************************************************)
\* num("0.01"): quant's and round_num's exponent
round_num == Dec(0, <<1>>, -2)

InvalidConversion == Raise("ValueError", <<"\\033cInvalid conversion.">>)

\* a convert that puts the newest entry first (history.insert(0, ...)): C2
\* tells it from the program's
prepend_return(history, value, from_unit, result, to_unit) ==
  [history |-> <<<<value, from_unit, result, to_unit>>>> \o history,
   ret |-> result]

\* self.history.append((value, from_unit, result, to_unit)); return result
append_return(history, value, from_unit, result, to_unit) ==
  [history |-> Append(history, <<value, from_unit, result, to_unit>>),
   ret |-> result]

\* a convert that records the failed call before raising: C1 tells it
\* from the program's
raise_recorded(history, exc) ==
  [history |-> Append(history, <<exc>>), ret |-> exc]

\* an exception leaves convert: nothing appended
raise(history, exc) == [history |-> history, ret |-> exc]

\* temconv.py, convert once the strategy is looked up: compute, store and
\* return, unrounded
convert_affine_with(strategy, history, value, from_unit, to_unit) ==
  IF strategy.class = "NoneType" THEN raise(history, InvalidConversion)
  ELSE append_return(history, value, from_unit,
                     strategy_convert(strategy, value), to_unit)

convert_affine(history, value, from_unit, to_unit) ==
  convert_affine_with(get_strategy("affine", from_unit, to_unit),
                      history, value, from_unit, to_unit)

\* temconv_non-affine.py, convert after result = raw_result.quantize(
\* round_num): a quantize that raised leaves before the append
convert_rounded(history, value, from_unit, result, to_unit) ==
  IF IsExc(result) THEN raise(history, result)
  ELSE append_return(history, value, from_unit, result, to_unit)

\* temconv_non-affine.py, convert once the strategy is looked up
convert_nonaffine_with(strategy, history, value, from_unit, to_unit) ==
  IF strategy.class = "NoneType" THEN raise(history, InvalidConversion)
  ELSE convert_rounded(history, value, from_unit,
                       quantize(strategy_convert(strategy, value), round_num),
                       to_unit)

convert_nonaffine(history, value, from_unit, to_unit) ==
  convert_nonaffine_with(get_strategy("nonaffine", from_unit, to_unit),
                         history, value, from_unit, to_unit)

convert(variant, history, value, from_unit, to_unit) ==
  IF variant = "affine"
  THEN convert_affine(history, value, from_unit, to_unit)
  ELSE convert_nonaffine(history, value, from_unit, to_unit)

(***************************************************************************)
(* State.                                                                  *)
(*   variant   which program runs                                          *)
(*   history   UnitConverter.history: <<value, from_unit, result, to_unit>>*)
(*   call      the arguments of the latest convert call                    *)
(*   ret       what the latest convert call gave: a Decimal it returned or *)
(*             the exception it raised                                     *)
(*   ncalls    convert calls made so far                                   *)
(*   nreturned convert calls that returned so far                          *)
(* and, for the interactive loop of temconv.py (main):                     *)
(*   pc        the prompt main waits at, or "done" / "crashed"             *)
(*   value     main's local value (the parsed Decimal)                     *)
(*   from_unit main's local from_unit                                      *)
(*   screen    the latest thing printed                                    *)
(*   uncaught  the exception that left main, if any                        *)
(*   rounds    rounds of the loop started so far                           *)
(*   round_len the history's length when the current round started         *)
(***************************************************************************)
VARIABLES variant, history, call, ret, ncalls, nreturned,
          pc, value, from_unit, screen, uncaught, rounds, round_len

conv_vars == <<variant, history, call, ret, ncalls, nreturned>>

main_vars == <<pc, value, from_unit, screen, uncaught, rounds, round_len>>

vars == <<variant, history, call, ret, ncalls, nreturned,
          pc, value, from_unit, screen, uncaught, rounds, round_len>>

NoCall == [class |-> "NoneType"]

NoValue == [class |-> "NoneType"]

\* the state of a UnitConverter() nobody has called yet
InitConverter ==
  /\ history = <<>>
  /\ call = NoCall
  /\ ret = NoValue
  /\ ncalls = 0
  /\ nreturned = 0

\* main is not running: the converter is called directly
NoMain ==
  /\ pc = "api"
  /\ value = NoValue
  /\ from_unit = ""
  /\ screen = <<>>
  /\ uncaught = NoValue
  /\ rounds = 0
  /\ round_len = 0

\* one call converter.convert(v, f, t)
Convert(v, f, t) ==
  \E r \in {convert(variant, history, v, f, t)} :
     /\ history' = r.history
     /\ ret' = r.ret
     /\ call' = [value |-> v, from_unit |-> f, to_unit |-> t]
     /\ ncalls' = ncalls + 1
     /\ nreturned' = IF IsExc(r.ret) THEN nreturned ELSE nreturned + 1
     /\ UNCHANGED variant

(***************************************************************************)
(* Spec: a session of direct calls on one converter.                       *)
(***************************************************************************)
\* calls per session
MaxCalls == 3

\* -40.123, 0.015, 1E+21
SessionValues ==
  { Dec(1, <<4, 0, 1, 2, 3>>, -3), Dec(0, <<1, 5>>, -3), Dec(0, <<1>>, 21) }

\* two registered units and a code that is no unit
SessionCodes == {"C", "K", "X"}

Init == variant \in Variants /\ InitConverter /\ NoMain

Call ==
  /\ ncalls < MaxCalls
  /\ \E v \in SessionValues, f \in SessionCodes, t \in SessionCodes :
       Convert(v, f, t)
  /\ UNCHANGED main_vars

Next == Call

Spec == Init /\ [][Next]_vars

(***************************************************************************)
(* SpecCalc: convert as a function of its arguments.  A fresh converter    *)
(* is called once with any value and any pair of codes; when that call     *)
(* returned, its result may be converted back through the reverse pair.    *)
(***************************************************************************)
\* the range values are k / 1000 for k in -MaxMilli..MaxMilli
MaxMilli == 12

Milli(k) ==
  IF k < 0 THEN Dec(1, NatToCoef(-k), -3) ELSE Dec(0, NatToCoef(k), -3)

\* 0, 1, 10, 100, -40, 0.005, 0.015, 0.125, 37.7777777, -273.15,
\* 98.6, 12345678.905, 1E+21, 1E+30
PickedValues ==
  { num(0), num(1), num(10), num(100), num(-40),
    Dec(0, <<5>>, -3), Dec(0, <<1, 5>>, -3), Dec(0, <<1, 2, 5>>, -3),
    Dec(0, <<3, 7, 7, 7, 7, 7, 7, 7, 7>>, -7),
    Dec(1, <<2, 7, 3, 1, 5>>, -2), Dec(0, <<9, 8, 6>>, -1),
    Dec(0, <<1, 2, 3, 4, 5, 6, 7, 8, 9, 0, 5>>, -3),
    Dec(0, <<1>>, 21), Dec(0, <<1>>, 30) }

Values == PickedValues \cup {Milli(k) : k \in (-MaxMilli)..MaxMilli}

\* the codes of both variants, a code that is no unit, a lower-case code
AllCodes == {"C", "F", "K", "KM", "LK", "L", "MI", "X", "c"}

First ==
  /\ ncalls = 0
  /\ \E v \in Values, f \in AllCodes, t \in AllCodes : Convert(v, f, t)
  /\ UNCHANGED main_vars

Back ==
  /\ ncalls = 1
  /\ ~IsExc(ret)
  /\ Convert(ret, call.to_unit, call.from_unit)
  /\ UNCHANGED main_vars

NextCalc == First \/ Back

SpecCalc == Init /\ [][NextCalc]_vars

(***************************************************************************)
(* Text read by input(): a line is a sequence of characters.               *)
(***************************************************************************)
UpperCase ==
  << "A", "B", "C", "D", "E", "F", "G", "H", "I", "J", "K", "L", "M",
     "N", "O", "P", "Q", "R", "S", "T", "U", "V", "W", "X", "Y", "Z" >>

LowerCase ==
  << "a", "b", "c", "d", "e", "f", "g", "h", "i", "j", "k", "l", "m",
     "n", "o", "p", "q", "r", "s", "t", "u", "v", "w", "x", "y", "z" >>

DigitChars == << "0", "1", "2", "3", "4", "5", "6", "7", "8", "9" >>

Whitespace == {" "}

\* the character of alphabet `to` at the place c has in alphabet `from`;
\* c itself when `from` does not hold it
translate(c, from, to) ==
  IF \E i \in 1..Len(from) : from[i] = c
  THEN to[CHOOSE i \in 1..Len(from) : from[i] = c]
  ELSE c

\* str.lower()
str_lower(s) ==
  Tuple([i \in 1..Len(s) |-> translate(s[i], UpperCase, LowerCase)], Len(s))

\* str.upper()
str_upper(s) ==
  Tuple([i \in 1..Len(s) |-> translate(s[i], LowerCase, UpperCase)], Len(s))

\* s[lo..hi] for the set `keep` of the places to keep, lo and hi its ends
span(s, keep) ==
  IF keep = {} THEN <<>>
  ELSE SubSeq(s, CHOOSE i \in keep : \A j \in keep : i <= j,
                 CHOOSE i \in keep : \A j \in keep : i >= j)

\* str.strip()
str_strip(s) == span(s, {i \in 1..Len(s) : s[i] \notin Whitespace})

\* the characters as one string: the unit code handed to convert
RECURSIVE join(_)
join(s) == IF s = <<>> THEN "" ELSE s[1] \o join(Tail(s))

\* the first place of s holding one of chars, Len(s) + 1 when none does
find(s, chars) ==
  IF \E i \in 1..Len(s) : s[i] \in chars
  THEN CHOOSE i \in 1..Len(s) :
         s[i] \in chars /\ \A j \in 1..(i - 1) : s[j] \notin chars
  ELSE Len(s) + 1

is_digits(s) == \A i \in 1..Len(s) : \E d \in 1..10 : DigitChars[d] = s[i]

\* int(s) digit by digit, as a coefficient; int("") counts as 0
digits_of(s) ==
  StripZeros(Tuple([i \in 1..Len(s) |->
                      (CHOOSE d \in 1..10 : DigitChars[d] = s[i]) - 1],
                   Len(s)))

\* the part of s after an optional sign
unsigned(s) ==
  IF s # <<>> /\ s[1] \in {"+", "-"} THEN Tail(s) ELSE s

sign_of(s) == IF s # <<>> /\ s[1] = "-" THEN 1 ELSE 0

ConversionSyntax == Raise("InvalidOperation", <<"ConversionSyntax">>)

\* the number of the parts the pattern of decimal._parser matched:
\* intpart, fracpart, and exp
decimal_of(sign, intpart, fracpart, exp) ==
  Dec(sign, digits_of(intpart \o fracpart),
      (IF sign_of(exp) = 1 THEN -1 ELSE 1) * CoefToNat(digits_of(unsigned(exp)))
      - Len(fracpart))

\* the pattern's test on the parts: digits around at most one point, one
\* digit at least, and an exponent, if an E is there, of one digit at least
decimal_parts(sign, intpart, fracpart, has_exp, exp) ==
  IF /\ is_digits(intpart) /\ is_digits(fracpart)
     /\ intpart \o fracpart # <<>>
     /\ has_exp => (unsigned(exp) # <<>> /\ is_digits(unsigned(exp)))
  THEN decimal_of(sign, intpart, fracpart, exp)
  ELSE ConversionSyntax

\* the mantissa split at its point
decimal_mantissa(sign, mant, dot, has_exp, exp) ==
  decimal_parts(sign, SubSeq(mant, 1, dot - 1),
                SubSeq(mant, dot + 1, Len(mant)), has_exp, exp)

\* the unsigned text split at its E
decimal_body(sign, body, e) ==
  decimal_mantissa(sign, SubSeq(body, 1, e - 1),
                   find(SubSeq(body, 1, e - 1), {"."}),
                   e <= Len(body), SubSeq(body, e + 1, Len(body)))

\* num(raw_value) = Decimal(str): the text of a finite number, spaces
\* around it ignored; anything else raises InvalidOperation (the lines
\* typed here spell no infinity and no NaN)
num_str(raw_value) ==
  decimal_body(sign_of(str_strip(raw_value)),
               unsigned(str_strip(raw_value)),
               find(unsigned(str_strip(raw_value)), {"e", "E"}))

\* quant(x): x.quantize(num("0.01"))
quant(x) == quantize(x, round_num)

(***************************************************************************)
(* SpecMain: main() of temconv.py, one action per line read.               *)
(***************************************************************************)
\* rounds of the loop per run
MaxRounds == 2

\* what may be typed at a prompt:
\*   "1e30"  "0.015"  "-40"  "abc"  "exit"  " QUIT "  "c"  " F"  "k"
Lines ==
  { <<"1", "e", "3", "0">>, <<"0", ".", "0", "1", "5">>, <<"-", "4", "0">>,
    <<"a", "b", "c">>, <<"e", "x", "i", "t">>,
    <<" ", "Q", "U", "I", "T", " ">>, <<"c">>, <<" ", "F">>, <<"k">> }

InvalidInput == <<"Invalid input.">>

\* get_raw: the line asks to leave
RequestExit(user_input) ==
  str_lower(str_strip(user_input)) \in
    { <<"e", "x", "i", "t">>, <<"q", "u", "i", "t">> }

\* unit(prompt): get_raw(prompt).strip().upper()
unit(user_input) == join(str_upper(str_strip(user_input)))

InitMain ==
  /\ variant = "affine"
  /\ InitConverter
  /\ pc = "value"
  /\ value = NoValue
  /\ from_unit = ""
  /\ screen = <<>>
  /\ uncaught = NoValue
  /\ rounds = 1
  /\ round_len = 0

\* the listing's lines: f"{value} {from_unit} > {quant(result)} {to_unit}"
history_lines(h) ==
  Tuple([i \in 1..Len(h) |-> <<h[i][1], h[i][2], quant(h[i][3]), h[i][4]>>],
        Len(h))

\* the for loop over the history: it prints line after line and stops at
\* the first quant that raises, which nothing catches
print_history(lines, bad) ==
  /\ screen' = <<"History:">> \o SubSeq(lines, 1, bad - 1)
  /\ IF bad <= Len(lines)
     THEN pc' = "crashed" /\ uncaught' = lines[bad][3]
     ELSE pc' = "done" /\ UNCHANGED uncaught

print_lines(lines) ==
  print_history(lines,
                IF \E i \in 1..Len(lines) : IsExc(lines[i][3])
                THEN CHOOSE i \in 1..Len(lines) :
                       IsExc(lines[i][3])
                       /\ \A j \in 1..(i - 1) : ~IsExc(lines[j][3])
                ELSE Len(lines) + 1)

\* break, then the code after the loop: the history if there is one
Leave ==
  /\ IF history # <<>>
     THEN \E lines \in {history_lines(history)} : print_lines(lines)
     ELSE pc' = "done" /\ screen' = <<>> /\ UNCHANGED uncaught
  /\ UNCHANGED <<conv_vars, value, from_unit, rounds, round_len>>

\* except Exception: print("Invalid input."), on to the last prompt
Invalid ==
  /\ screen' = InvalidInput
  /\ pc' = "continue"
  /\ UNCHANGED <<uncaught, rounds, round_len>>

\* a line at "Value:": value = num(raw_value)
parsed_value(v) ==
  IF IsExc(v)
  THEN Invalid /\ UNCHANGED <<conv_vars, value, from_unit>>
  ELSE /\ value' = v
       /\ pc' = "from"
       /\ UNCHANGED <<conv_vars, from_unit, screen, uncaught, rounds, round_len>>

EnterValue ==
  /\ pc = "value"
  /\ \E raw_value \in Lines :
       IF RequestExit(raw_value) THEN Leave
       ELSE \E v \in {num_str(raw_value)} : parsed_value(v)

\* a line at "From:"
EnterFrom ==
  /\ pc = "from"
  /\ \E user_input \in Lines :
       IF RequestExit(user_input) THEN Leave
       ELSE /\ from_unit' = unit(user_input)
            /\ pc' = "to"
            /\ UNCHANGED <<conv_vars, value, screen, uncaught, rounds, round_len>>

\* print("Result:", quant(result), to_unit), quant raising like any
\* other statement of the try block
print_result(shown, to_unit) ==
  IF IsExc(shown) THEN Invalid
  ELSE /\ screen' = <<"Result:", shown, to_unit>>
       /\ pc' = "continue"
       /\ UNCHANGED <<uncaught, rounds, round_len>>

\* a line at "To:": the conversion and its display
EnterTo ==
  /\ pc = "to"
  /\ \E user_input \in Lines :
       IF RequestExit(user_input) THEN Leave
       ELSE /\ Convert(value, from_unit, unit(user_input))
            /\ IF IsExc(ret') THEN Invalid
               ELSE \E shown \in {quant(ret')} :
                      print_result(shown, unit(user_input))
            /\ UNCHANGED <<value, from_unit>>

\* a line at "Press any key to continue...": the next round
Continue ==
  /\ pc = "continue"
  /\ \E user_input \in Lines :
       IF RequestExit(user_input) THEN Leave
       ELSE /\ rounds < MaxRounds
            /\ pc' = "value"
            /\ rounds' = rounds + 1
            /\ round_len' = Len(history)
            /\ UNCHANGED <<conv_vars, value, from_unit, screen, uncaught>>

\* Ctrl-C at a prompt: except KeyboardInterrupt: break
Interrupt ==
  /\ pc \in {"value", "from", "to", "continue"}
  /\ Leave

\* end of input at a prompt: EOFError is an Exception inside the inner
\* try, and is caught by nothing at the last prompt
EndOfInput ==
  \/ /\ pc \in {"value", "from", "to"}
     /\ Invalid
     /\ UNCHANGED <<conv_vars, value, from_unit>>
  \/ /\ pc = "continue"
     /\ pc' = "crashed"
     /\ uncaught' = Raise("EOFError", <<>>)
     /\ UNCHANGED <<conv_vars, value, from_unit, screen, rounds, round_len>>

NextMain ==
  \/ EnterValue
  \/ EnterFrom
  \/ EnterTo
  \/ Continue
  \/ Interrupt
  \/ EndOfInput

SpecMain == InitMain /\ [][NextMain]_vars

(***************************************************************************)
(* Properties.                                                             *)
(***************************************************************************)
\* the unit codes: temperature, and distance with the variant's code for
\* Leuk
Temperature == {"C", "F", "K"}

Leuk(v) == IF v = "affine" THEN "LK" ELSE "L"

Distance(v) == {"KM", Leuk(v), "MI"}

\* the ordered pairs of distinct units of one dimension
RegisteredPairs(v) ==
  {p \in (Temperature \X Temperature) \cup (Distance(v) \X Distance(v)) :
     p[1] # p[2]}

\* the rule the latest call looked up, and what that rule computes
LastRule == get_strategy(variant, call.from_unit, call.to_unit)

RawResult == strategy_convert(LastRule, call.value)

\* the latest call returned
Returned == ncalls >= 1 /\ ~IsExc(ret)

\* the coefficient of d at exponent e <= d.exp
Scaled(d, e) == StripZeros(d.int \o Zeros(d.exp - e))

\* |a - b| at exponent e, exactly
AbsDiff(a, b, e) ==
  IF a.sign # b.sign THEN AddCoef(Scaled(a, e), Scaled(b, e))
  ELSE IF CmpCoef(Scaled(a, e), Scaled(b, e)) >= 0
  THEN SubCoef(Scaled(a, e), Scaled(b, e))
  ELSE SubCoef(Scaled(b, e), Scaled(a, e))

\* |a - b| <= tol, exactly
Within(a, b, tol) ==
  CmpCoef(AbsDiff(a, b, Min(Min(a.exp, b.exp), tol.exp)),
          Scaled(tol, Min(Min(a.exp, b.exp), tol.exp))) <= 0

\* C1: each convert call that returns appends exactly one history entry,
\* each call that raises leaves the history as it was, and the history's
\* length is the number of calls that returned so far.
C1_OneEntryPerReturn ==
  [][/\ Len(history) = nreturned
     /\ Len(history') = nreturned'
     /\ IsExc(ret') => history' = history
     /\ ~IsExc(ret') => Len(history') = Len(history) + 1]_vars

\* a session in which two calls returned and then one raised
C1_Witness ==
  /\ ncalls = 3
  /\ nreturned = 2
  /\ IsExc(ret)
  /\ Len(history) = 2

\* C2: the history is append-only and in call order: a call that returns
\* adds (value, from_unit, output, to_unit) of that call at the end, a call
\* that raises adds nothing, and the entries recorded before stay as they
\* were and where they were (the old history is a prefix of the new one).
C2_AppendOnlyInCallOrder ==
  [][/\ Len(history) <= Len(history')
     /\ SubSeq(history', 1, Len(history)) = history
     /\ IF IsExc(ret') THEN history' = history
        ELSE history' = Append(history, <<call'.value, call'.from_unit,
                                          ret', call'.to_unit>>)]_vars

\* three calls returned, the first and the last of them different ones
C2_Witness ==
  /\ ncalls = 3
  /\ Len(history) = 3
  /\ history[1] # history[3]
  /\ history[3] = <<call.value, call.from_unit, ret, call.to_unit>>

\* C3: what convert returns and what it stores are the rule's raw result
\* rounded to 2 decimals inside convert, the returned value being the
\* stored one.
C3_ReturnsAndStoresRounded ==
  Returned =>
    /\ ret = quant(RawResult)
    /\ ret.exp = -2
    /\ history[Len(history)][3] = ret

\* C4: get_strategy gives a rule for exactly the 12 ordered pairs of
\* distinct units of one dimension and none for any other pair (same unit,
\* other dimension, unknown code); convert raises the invalid-conversion
\* error for exactly those other pairs.
C4_ExactlyTheRegisteredPairs ==
  /\ Cardinality(RegisteredPairs(variant)) = 12
  /\ DOMAIN strategy_map(variant) = RegisteredPairs(variant)
  /\ ncalls >= 1 =>
       /\ LastRule.class # "NoneType"
            <=> <<call.from_unit, call.to_unit>> \in RegisteredPairs(variant)
       /\ ret = InvalidConversion
            <=> <<call.from_unit, call.to_unit>> \notin RegisteredPairs(variant)
       /\ ret = InvalidConversion => history = <<>>

\* a cross-dimension pair was refused
C4_Witness ==
  /\ ncalls = 1
  /\ call.from_unit = "C"
  /\ call.to_unit = "KM"
  /\ ret = InvalidConversion
  /\ history = <<>>

\* the raw result is halfway between two 2-decimal values: its digit for
\* 10^-3 is a 5 and nothing but zeros follows
IsTie(raw) ==
  /\ raw.exp <= -3
  /\ Len(raw.int) >= -raw.exp - 2
  /\ raw.int[Len(raw.int) + raw.exp + 3] = 5
  /\ ZerosFrom(raw.int, Len(raw.int) + raw.exp + 4)

\* the 2-decimal neighbour of a tie that is farther from zero
HalfUp(raw) ==
  Dec(raw.sign,
      AddCoef(StripZeros(SubSeq(raw.int, 1, Len(raw.int) + raw.exp + 2)),
              <<1>>),
      -2)

\* the result as the program rounds it: inside convert, or by quant when
\* the result is shown
Shown == IF variant = "affine" THEN quant(ret) ELSE ret

\* C5: rounding to 2 decimals is round-half-up: a raw result exactly
\* halfway between two 2-decimal values goes to the one farther from zero
\* (C to K of 0.015: raw 273.165, rounded 273.17).
C5_RoundsHalfUp ==
  (Returned /\ IsTie(RawResult)) => Shown = HalfUp(RawResult)

\* convert(v, f, t) returned out
Scenario(v, f, t, out) ==
  (ncalls = 1 /\ call = [value |-> v, from_unit |-> f, to_unit |-> t])
    => (~IsExc(ret) /\ Dec_eq(ret, out))

\* C6: convert(0, C, F) = 32.00, convert(100, C, F) = 212.00,
\* convert(0, C, K) = 273.15, convert(1, KM, MI) = 0.62 and
\* convert(10, MI, KM) = 16.09.
C6_SpecScenarios ==
  /\ Scenario(num(0), "C", "F", Dec(0, <<3, 2, 0, 0>>, -2))
  /\ Scenario(num(100), "C", "F", Dec(0, <<2, 1, 2, 0, 0>>, -2))
  /\ Scenario(num(0), "C", "K", D273_15)
  /\ Scenario(num(1), "KM", "MI", Dec(0, <<6, 2>>, -2))
  /\ Scenario(num(10), "MI", "KM", Dec(0, <<1, 6, 0, 9>>, -2))

\* the latest two calls were convert(v, C, F) and convert of its result
\* from F to C, and both returned
RoundTrip ==
  /\ ncalls = 2
  /\ Len(history) = 2
  /\ history[1][2] = "C"
  /\ history[1][4] = "F"
  /\ call = [value |-> history[1][3], from_unit |-> "F", to_unit |-> "C"]

\* C7: for every value v of Values, convert(convert(v, C, F), F, C), when
\* both calls return, is within 0.01 of v.
C7_RoundTripWithinCent ==
  RoundTrip => Within(ret, history[1][1], round_num)

\* -0.007 went to Fahrenheit and back, and did not come back as itself
C7_Witness ==
  /\ RoundTrip
  /\ history[1][1] = Dec(1, <<7>>, -3)
  /\ ~Dec_eq(ret, history[1][1])

\* C8: for a registered pair convert never raises, whatever the value: it
\* returns a result and appends its entry.
C8_NeverRaisesForRegisteredPair ==
  (ncalls >= 1 /\ LastRule.class # "NoneType") =>
    /\ ~IsExc(ret)
    /\ history # <<>>
    /\ history[Len(history)] = <<call.value, call.from_unit, ret, call.to_unit>>

\* convert refused the pair of the latest call
Refused == ncalls >= 1 /\ ret = InvalidConversion

\* C9: the error raised for a pair without a rule carries that pair: the
\* errors of two refused calls with different pairs differ, so the error
\* tells the pairs apart.
C9_ErrorCarriesThePair ==
  [][(/\ Refused
      /\ Refused'
      /\ <<call.from_unit, call.to_unit>> # <<call'.from_unit, call'.to_unit>>)
       => ret # ret']_vars

\* C10: in main of temconv.py, a round that ends with "Invalid input." has
\* added nothing to the history, and the listing of the history at exit
\* never raises.
C10_InvalidRoundAddsNothing ==
  /\ (pc = "continue" /\ screen = InvalidInput) => Len(history) = round_len
  /\ (pc = "crashed" /\ IsExc(uncaught)) => uncaught.exc = "EOFError"

====
